---- MODULE Spec2Model ----
(***************************************************************************)
(* A model of _stbt/logging.py: the process-wide debug level (lazy seeding *)
(* from configuration, scoped overrides, the --verbose argparse action),   *)
(* the three text emitters, and the per-frame ImageLogger.                 *)
(*                                                                         *)
(* One action models one call of one function of the module, run to        *)
(* completion (a single-threaded caller).  A `with scoped_debug_level`     *)
(* block is two actions, its entry and its exit, with any other calls in   *)
(* between (the body).                                                     *)
(***************************************************************************)
EXTENDS Integers, Sequences, FiniteSets, TLC

----------------------------------------------------------------------------
(* Bounds of the model *)

\* levels range over 0..MaxLevel (configuration values and scoped overrides)
MaxLevel == 2
\* deepest nesting of `with scoped_debug_level(...)` blocks
MaxDepth == 2
\* deepest nesting of scoped_debug_level blocks around ImageLogger calls
MaxLoggerDepth == 1
\* number of argparser_add_verbose_argument calls
MaxParsers == 1
\* number of -v occurrences handled by one registered action
MaxCalls == 2
\* number of ImageLogger constructions, when nothing but scoped overrides
\* changes the level around them
MaxLoggers == 2
\* number of ImageLogger constructions, when every call of the module is made
MaxFrames == 1
\* number of images all the loggers of the process hold together
MaxImages == 2
\* number of get_config calls
MaxLookups == 2

----------------------------------------------------------------------------
(* Values *)

\* Python's None (the unset level, an absent pyramid_level); Python 2 orders
\* None below every integer, as -1 is below every level here.
None == -1

Levels == 0 .. MaxLevel

\* get_config raises instead of returning a value
ConfigError == -2

\* the `name` argument of ImageLogger(name, ...)
Idents == {"match", "motion"}

\* the `name` argument of imwrite
ImageNames == {"source"}

\* the `pyramid_level` argument of imwrite
PyramidArgs == {None, 1}

\* **kwargs of ImageLogger(...) and of set(...): functions from keys to values
EmptyDict == [k \in {} |-> 0]
KwargsSet == {EmptyDict, [k \in {"region"} |-> 1]}

\* An image is one sample with its dtype.  A float sample is held in
\* thousandths (1000 is 1.0), an integer sample as itself.
FloatUnit == 1000
Samples == {[dtype |-> "float32", sample |-> FloatUnit],
            [dtype |-> "uint8", sample |-> 255]}

\* images of every kind of dtype: float32 samples from 0.0 to 1.0, a
\* float64 sample, 8-bit and 16-bit integer samples
AllSamples ==
    {[dtype |-> "float32", sample |-> v] : v \in {0, 500, FloatUnit}}
        \cup {[dtype |-> "float64", sample |-> FloatUnit],
              [dtype |-> "uint8", sample |-> 0],
              [dtype |-> "uint8", sample |-> 255],
              [dtype |-> "uint16", sample |-> 1000]}

\* what cv2.imwrite can do: write the file and return True, write nothing and
\* return False, or raise
WriteOutcomes == {"ok", "false", "error"}

\* os.path.basename(sys.argv[0])
Prog == "stbt"
Messages == {"hello"}

\* u'Pr\xfcfungs Debug-Unicode', a unicode message that is not ASCII
NonAsciiMessages == {"Pr\\xfcfungs Debug-Unicode"}

\* sys.stderr.encoding: the encoding the stream turns a unicode line into
\* bytes with; a stream without one ("ascii") uses the default encoding
Encodings == {"utf-8", "ascii"}

----------------------------------------------------------------------------
(* Pure functions of the module *)

\* "%s: %s\n" % (os.path.basename(sys.argv[0]), msg)
DebugLine(msg) == Prog \o ": " \o msg \o "\n"

\* "%s: warning: %s\n" % (os.path.basename(sys.argv[0]), s)
WarnLine(s) == Prog \o ": warning: " \o s \o "\n"

\* sys.stderr.write(line) with a unicode line: the stream encodes it, which
\* fails for a character its encoding does not have
can_write(encoding, msg) == encoding = "utf-8" \/ msg \notin NonAsciiMessages

\* get_debug_level: the value it returns, which is also the value
\* _debug_level holds afterwards
get_debug_level(level, cfg) == IF level = None THEN cfg ELSE level

\* Faulty variant: get_config is called whether or not the level is set
needs_config_always(level) == TRUE

\* get_debug_level: `if _debug_level is None`, the test that guards get_config
needs_config(level) == level = None

\* Faulty variant: the value get_config returned is not kept
cached_level_not_stored(level, value) == level

\* get_debug_level: `_debug_level = get_config(...)`; value is what
\* get_debug_level returns, which is the level itself when it was set
cached_level(level, value) == value

\* debug: the lines it writes at the level get_debug_level returned
debug_output(level, msg) == IF level > 0 THEN <<DebugLine(msg)>> ELSE <<>>

\* Faulty variant: ddebug tests the level as debug does
ddebug_output_at_1(level, s) == IF level > 0 THEN <<DebugLine(s)>> ELSE <<>>

\* ddebug: the lines it writes at the level get_debug_level returned
ddebug_output(level, s) == IF level > 1 THEN <<DebugLine(s)>> ELSE <<>>

\* warn: the lines it writes
warn_output(s) == <<WarnLine(s)>>

\* scoped_debug_level's entry: the level the body runs at
scope_enter_level(level, arg) == arg

\* Faulty variant: the restore is not in a finally clause: an error in the body
\* skips it
scope_exit_level_no_finally(level, oldlevel, raised) ==
    IF raised THEN level ELSE oldlevel

\* scoped_debug_level's exit: the finally clause runs whether the body
\* returned (raised = FALSE) or raised an error (raised = TRUE)
scope_exit_level(level, oldlevel, raised) == oldlevel

\* Faulty variant: the count is read from the class attribute each time
increase_num_calls_of_class(num_calls) == 0 + 1

\* IncreaseDebugLevel.__call__: self.num_calls += 1
increase_num_calls(num_calls) == num_calls + 1

\* Faulty variant: the level is raised by one from its previous value
increase_level_relative(level, num_calls) == level + 1

\* IncreaseDebugLevel.__call__: _debug_level = self.num_calls
increase_level(level, num_calls) == num_calls

RECURSIVE Zeros(_)
Zeros(k) == IF k <= 0 THEN "" ELSE "0" \o Zeros(k - 1)

\* Faulty variant: "%d" % n, the number without its leading zeros
Pad5_unpadded(n) == ToString(n)

\* "%05d" % n for n >= 0
Pad5(n) == LET s == ToString(n) IN Zeros(5 - Len(s)) \o s

\* Faulty variant: the directory is named after the identifier alone
OutDir_of_name(name, frame_number) == "stbt-debug" \o "/" \o name

\* os.path.join("stbt-debug", self.name, "%05d" % self.frame_number)
OutDir(name, frame_number) ==
    "stbt-debug" \o "/" \o name \o "/" \o Pad5(frame_number)

\* imwrite: name = "level%d-%s" % (pyramid_level, name) when a level is given
StoredName(name, pyramid_level) ==
    IF pyramid_level # None
    THEN "level" \o ToString(pyramid_level) \o "-" \o name
    ELSE name

\* os.path.join(self.outdir, name + ".png")
ImagePath(outdir, name) == outdir \o "/" \o name \o ".png"

\* cv2.convertScaleAbs(image, alpha=255) on one sample held in thousandths:
\* |sample * 255|, rounded to the nearest integer (ties to even), saturated
\* to 8 bits
ConvertScaleAbs(sample) ==
    LET a == IF sample < 0 THEN -sample ELSE sample
        n == a * 255
        q == n \div FloatUnit
        r == n % FloatUnit
        rounded == IF 2 * r > FloatUnit THEN q + 1
                   ELSE IF 2 * r < FloatUnit THEN q
                   ELSE IF q % 2 = 0 THEN q ELSE q + 1
    IN  IF rounded > 255 THEN 255 ELSE rounded

\* Faulty variant: the float32 image is recorded as it came
ConvertImage_unscaled(image) == image

\* imwrite: the array recorded and persisted for an input image
ConvertImage(image) ==
    IF image.dtype = "float32"
    THEN [dtype |-> "uint8", sample |-> ConvertScaleAbs(image.sample)]
    ELSE image

\* self.data[k] = v for every k, v of kwargs
UpdateDict(data, kwargs) ==
    [k \in DOMAIN data \cup DOMAIN kwargs |->
        IF k \in DOMAIN kwargs THEN kwargs[k] ELSE data[k]]

\* the keys of an OrderedDict held as a sequence of [name, img] entries
Keys(images) == {images[j].name : j \in 1 .. Len(images)}

\* cv2.imwrite on the file system: files maps each path to the number of
\* times it has been written
WriteFile(fs, path) ==
    [p \in DOMAIN fs \cup {path} |->
        IF p = path THEN (IF p \in DOMAIN fs THEN fs[p] + 1 ELSE 1)
        ELSE fs[p]]

----------------------------------------------------------------------------
(* State *)

VARIABLES
    debug_level,     \* the module global _debug_level: None or an integer
    config_verbose,  \* what get_config('global', 'verbose', type_=int) returns
    scopes,          \* the active scoped_debug_level blocks, outermost first:
                     \* [oldlevel: the generator's local, seen: the level
                     \* get_debug_level would have returned just before entry]
    actions,         \* the registered IncreaseDebugLevel actions: [num_calls,
                     \* namespace: the parse namespace's `verbose`, invoked:
                     \* history, the number of times __call__ has run]
    frame_number,    \* the class attribute ImageLogger._frame_number
    loggers,         \* the ImageLogger instances constructed so far
    dirs,            \* directories mkdir_p has created
    files,           \* image files written: path -> number of writes
    stderr_encoding, \* sys.stderr.encoding
    workers,         \* the locals of each thread that runs code of the module
    lookups,         \* history: the number of get_config calls made so far
    stderr,          \* the lines the most recent call wrote to sys.stderr
    op               \* the most recent call: [name, target, args, raised]

vars == <<debug_level, config_verbose, scopes, actions,
          frame_number, loggers, dirs, files, stderr_encoding, workers,
          lookups, stderr, op>>

\* the program's own state, without the record of the most recent call
progvars == <<debug_level, scopes, actions, frame_number, loggers, dirs, files,
              lookups>>

\* The threads of a process that calls the module from more than one.  A
\* thread is outside or inside its scoped_debug_level block, whose level and
\* oldlevel are locals of the generator; base is what get_debug_level returned
\* before the first of the blocks now active was entered.  In the ImageLogger
\* constructor it is at one of the statements of lines 91-98: self_frame_number
\* is self.frame_number, loaded the counter value `+=` has read.
Workers == {1, 2}

IdleWorker ==
    [scope |-> "out", level |-> None, oldlevel |-> None, base |-> None,
     init |-> "start", self_frame_number |-> None, loaded |-> None]

Call(name, target, args, raised) ==
    [name |-> name, target |-> target, args |-> args, raised |-> raised]

Init ==
    /\ debug_level = None
    /\ config_verbose \in Levels
    /\ scopes = <<>>
    /\ actions = <<>>
    /\ frame_number = 1
    /\ loggers = <<>>
    /\ dirs = {}
    /\ files = EmptyDict
    /\ stderr_encoding = "utf-8"
    /\ workers = [w \in Workers |-> IdleWorker]
    /\ lookups = 0
    /\ stderr = <<>>
    /\ op = Call("import", 0, <<>>, "none")

----------------------------------------------------------------------------
(* The debug level *)

\* a call of get_debug_level inside the call `name`: get_config is called
\* when the level is unset, and its error, if it raises, leaves the call
\* `name` at once; otherwise the level is the value returned
ConfigFails == needs_config(debug_level) /\ config_verbose = ConfigError

ReadLevel ==
    /\ needs_config(debug_level) => lookups < MaxLookups
    /\ lookups' = IF needs_config(debug_level) THEN lookups + 1 ELSE lookups

Propagate(name, target) ==
    /\ debug_level' = debug_level
    /\ stderr' = <<>>
    /\ op' = Call(name, target, <<>>, "ConfigError")

LevelRead == get_debug_level(debug_level, config_verbose)

\* the configuration and the stream, which no call of the module changes
env == <<config_verbose, stderr_encoding>>

\* the call `name` writes `lines`, made from msg, to sys.stderr; the error of
\* a line the stream cannot encode leaves the call
Emit(name, lines, msg) ==
    IF lines # <<>> /\ ~can_write(stderr_encoding, msg)
    THEN /\ stderr' = <<>>
         /\ op' = Call(name, 0, <<>>, "UnicodeEncodeError")
    ELSE /\ stderr' = lines
         /\ op' = Call(name, 0, <<>>, "none")

GetDebugLevel ==
    /\ ReadLevel
    /\ IF ConfigFails
       THEN Propagate("get_debug_level", 0)
       ELSE /\ debug_level' = cached_level(debug_level, LevelRead)
            /\ stderr' = <<>>
            /\ op' = Call("get_debug_level", 0, <<>>, "none")
    /\ UNCHANGED <<env, workers, scopes, actions,
                   frame_number, loggers, dirs, files>>

Debug(msg) ==
    /\ ReadLevel
    /\ IF ConfigFails
       THEN Propagate("debug", 0)
       ELSE /\ debug_level' = cached_level(debug_level, LevelRead)
            /\ Emit("debug", debug_output(LevelRead, msg), msg)
    /\ UNCHANGED <<env, workers, scopes, actions,
                   frame_number, loggers, dirs, files>>

Ddebug(s) ==
    /\ ReadLevel
    /\ IF ConfigFails
       THEN Propagate("ddebug", 0)
       ELSE /\ debug_level' = cached_level(debug_level, LevelRead)
            /\ Emit("ddebug", ddebug_output(LevelRead, s), s)
    /\ UNCHANGED <<env, workers, scopes, actions,
                   frame_number, loggers, dirs, files>>

Warn(s) ==
    /\ Emit("warn", warn_output(s), s)
    /\ UNCHANGED <<debug_level, env, workers, scopes, actions,
                   frame_number, loggers, dirs, files, lookups>>

ScopeEnter(level, depth) ==
    /\ Len(scopes) < depth
    /\ scopes' = Append(scopes, [oldlevel |-> debug_level,
                                 level |-> level,
                                 seen |-> get_debug_level(debug_level, config_verbose)])
    /\ debug_level' = scope_enter_level(debug_level, level)
    /\ stderr' = <<>>
    /\ op' = Call("scope_enter", 0, <<>>, "none")
    /\ UNCHANGED <<env, workers, actions, frame_number, loggers, dirs, files,
                   lookups>>

ScopeExit(raised) ==
    /\ Len(scopes) > 0
    /\ debug_level' = scope_exit_level(debug_level, scopes[Len(scopes)].oldlevel, raised)
    /\ scopes' = SubSeq(scopes, 1, Len(scopes) - 1)
    /\ stderr' = <<>>
    /\ op' = Call("scope_exit", 0, <<>>, IF raised THEN "body" ELSE "none")
    /\ UNCHANGED <<env, workers, actions, frame_number, loggers, dirs, files,
                   lookups>>

----------------------------------------------------------------------------
(* The --verbose argument *)

\* argparser_add_verbose_argument: a fresh IncreaseDebugLevel class
\* (num_calls = 0) and one instance of it; default=get_debug_level() seeds
\* the level and is the namespace's value until the action is called
AddVerboseArgument ==
    /\ Len(actions) < MaxParsers
    /\ ReadLevel
    /\ IF ConfigFails
       THEN /\ Propagate("argparser_add_verbose_argument", Len(actions) + 1)
            /\ actions' = actions
       ELSE /\ debug_level' = cached_level(debug_level, LevelRead)
            /\ actions' = Append(actions, [num_calls |-> 0, namespace |-> LevelRead,
                                           invoked |-> 0])
            /\ stderr' = <<>>
            /\ op' = Call("argparser_add_verbose_argument", Len(actions) + 1,
                          <<>>, "none")
    /\ UNCHANGED <<env, workers, scopes, frame_number,
                   loggers, dirs, files>>

\* IncreaseDebugLevel.__call__ on the a-th registered action: one -v
IncreaseDebugLevel(a) ==
    /\ actions[a].num_calls < MaxCalls
    /\ LET n == increase_num_calls(actions[a].num_calls)
           l == increase_level(debug_level, n)
       IN  /\ debug_level' = l
           /\ actions' = [actions EXCEPT ![a] = [num_calls |-> n, namespace |-> l,
                                                 invoked |-> @.invoked + 1]]
    /\ stderr' = <<>>
    /\ op' = Call("IncreaseDebugLevel", a, <<>>, "none")
    /\ UNCHANGED <<env, workers, scopes, frame_number,
                   loggers, dirs, files, lookups>>

----------------------------------------------------------------------------
(* ImageLogger *)

\* the instance __init__ leaves behind
\*   when the level is below 2: only `enabled` is set
InertLogger == [enabled |-> FALSE]
\*   when mkdir_p returned
EnabledLogger(name, fn, kwargs) ==
    [enabled |-> TRUE, name |-> name, frame_number |-> fn,
     outdir |-> OutDir(name, fn), images |-> <<>>, pyramid_levels |-> {},
     data |-> UpdateDict(EmptyDict, kwargs)]
\* Faulty variant: the except clause does not clear `enabled`
FailedLogger_still_enabled(name, fn) == EnabledLogger(name, fn, EmptyDict)

\*   when mkdir_p raised OSError: name and frame_number are set, enabled is False
FailedLogger(name, fn) == [enabled |-> FALSE, name |-> name, frame_number |-> fn]

\* Faulty variant: any verbosity enables the logger
init_enabled_at_1(level) == level > 0

\* self.enabled = get_debug_level() > 1
init_enabled(level) == level > 1

\* Faulty variant: the class counter is read but not advanced
next_frame_number_stuck(n) == n

\* ImageLogger._frame_number += 1
next_frame_number(n) == n + 1

\* Faulty variant: the test reads the current level too
is_active_at_level(logger, level) == logger.enabled /\ level > 1

\* set, imwrite: `if not self.enabled: return` is not taken; level is the
\* current debug level, which the test does not read
is_active(logger, level) == logger.enabled

\* "Failed to create directory '%s'; won't save debug images." % outdir
MkdirWarning(outdir) ==
    "Failed to create directory '" \o outdir \o "'; won't save debug images."

\* ImageLogger.__init__(name, **kwargs); mkdir_ok is whether mkdir_p returns
\* (TRUE) or raises OSError (FALSE); limit bounds the number of instances.
\* op.args records what the mkdir_p call did, when one was made.
ImageLogger_init(name, kwargs, mkdir_ok, limit) ==
    /\ Len(loggers) < limit
    /\ ReadLevel
    /\ IF ConfigFails
       THEN /\ Propagate("ImageLogger", Len(loggers) + 1)
            /\ UNCHANGED <<loggers, frame_number, dirs>>
       ELSE /\ debug_level' = cached_level(debug_level, LevelRead)
            /\ IF ~init_enabled(LevelRead)
               THEN /\ op' = Call("ImageLogger", Len(loggers) + 1, <<>>, "none")
                    /\ loggers' = Append(loggers, InertLogger)
                    /\ stderr' = <<>>
                    /\ UNCHANGED <<frame_number, dirs>>
               ELSE /\ op' = Call("ImageLogger", Len(loggers) + 1,
                                  <<IF mkdir_ok THEN "ok" ELSE "OSError">>, "none")
                    /\ frame_number' = next_frame_number(frame_number)
                    /\ IF mkdir_ok
                       THEN /\ dirs' = dirs \cup {OutDir(name, frame_number)}
                            /\ loggers' = Append(loggers, EnabledLogger(name, frame_number, kwargs))
                            /\ stderr' = <<>>
                       ELSE /\ dirs' = dirs
                            /\ loggers' = Append(loggers, FailedLogger(name, frame_number))
                            /\ stderr' = warn_output(MkdirWarning(OutDir(name, frame_number)))
    /\ UNCHANGED <<env, workers, scopes, actions, files>>

\* Faulty variant: set decides `enabled` again from the current level
ImageLogger_set_rereads_level(i, kwargs) ==
    /\ i \in 1 .. Len(loggers)
    /\ op' = Call("set", i, <<kwargs>>, "none")
    /\ stderr' = <<>>
    /\ loggers' = [loggers EXCEPT ![i].enabled = init_enabled(debug_level)]
    /\ UNCHANGED <<debug_level, env, workers, scopes, actions,
                   frame_number, dirs, files, lookups>>

\* ImageLogger.set(**kwargs) on the i-th instance
ImageLogger_set(i, kwargs) ==
    /\ i \in 1 .. Len(loggers)
    /\ op' = Call("set", i, <<kwargs>>, "none")
    /\ stderr' = <<>>
    /\ IF ~is_active(loggers[i], debug_level)
       THEN loggers' = loggers
       ELSE loggers' = [loggers EXCEPT ![i].data = UpdateDict(@, kwargs)]
    /\ UNCHANGED <<debug_level, env, workers, scopes, actions,
                   frame_number, dirs, files, lookups>>

\* Faulty variant: `images` is one dict shared by every instance
is_duplicate_shared(name, images) ==
    \E j \in 1 .. Len(loggers) :
        "images" \in DOMAIN loggers[j] /\ name \in Keys(loggers[j].images)

\* imwrite: `if name in self.images: raise ValueError(...)`
is_duplicate(name, images) == name \in Keys(images)

\* imwrite: self.pyramid_levels.add(pyramid_level) when a level is given
add_pyramid_level(levels, pyramid_level) ==
    IF pyramid_level # None THEN levels \cup {pyramid_level} ELSE levels

RECURSIVE TotalImages(_)
TotalImages(ls) ==
    IF ls = <<>> THEN 0
    ELSE (IF "images" \in DOMAIN Head(ls) THEN Len(Head(ls).images) ELSE 0)
         + TotalImages(Tail(ls))

\* ImageLogger.imwrite(name, image, pyramid_level) on the i-th instance;
\* outcome is what cv2.imwrite does
ImageLogger_imwrite(i, name, image, pyramid_level, outcome) ==
    /\ i \in 1 .. Len(loggers)
    /\ stderr' = <<>>
    /\ IF ~is_active(loggers[i], debug_level)
       THEN /\ op' = Call("imwrite", i, <<name, image, pyramid_level>>, "none")
            /\ UNCHANGED <<loggers, files>>
       ELSE LET stored == StoredName(name, pyramid_level)
                levels == add_pyramid_level(loggers[i].pyramid_levels, pyramid_level)
                img == ConvertImage(image)
            IN  IF is_duplicate(stored, loggers[i].images)
                THEN /\ op' = Call("imwrite", i, <<name, image, pyramid_level>>, "ValueError")
                     /\ loggers' = [loggers EXCEPT ![i].pyramid_levels = levels]
                     /\ files' = files
                ELSE /\ TotalImages(loggers) < MaxImages
                     /\ op' = Call("imwrite", i, <<name, image, pyramid_level>>,
                                   IF outcome = "error" THEN "cv2.error" ELSE "none")
                     /\ loggers' = [loggers EXCEPT
                            ![i].pyramid_levels = levels,
                            ![i].images = Append(@, [name |-> stored, img |-> img])]
                     /\ files' = IF outcome = "ok"
                                 THEN WriteFile(files, ImagePath(loggers[i].outdir, stored))
                                 ELSE files
    /\ UNCHANGED <<debug_level, env, workers, scopes, actions,
                   frame_number, dirs, lookups>>

----------------------------------------------------------------------------

\* calls that read or change the debug level only
LevelNext ==
    \/ GetDebugLevel
    \/ \E msg \in Messages : Debug(msg)
    \/ \E msg \in Messages : Ddebug(msg)
    \/ \E msg \in Messages : Warn(msg)
    \/ \E level \in Levels : ScopeEnter(level, MaxDepth)
    \/ \E raised \in BOOLEAN : ScopeExit(raised)
    \/ AddVerboseArgument
    \/ \E a \in 1 .. Len(actions) : IncreaseDebugLevel(a)

LevelSpec == Init /\ [][LevelNext]_vars

ImageLoggerNext(limit) ==
    \/ \E name \in Idents, kwargs \in KwargsSet, mkdir_ok \in BOOLEAN :
          ImageLogger_init(name, kwargs, mkdir_ok, limit)
    \/ \E i \in 1 .. Len(loggers), kwargs \in KwargsSet : ImageLogger_set(i, kwargs)
    \/ \E i \in 1 .. Len(loggers), name \in ImageNames, image \in Samples,
          pyramid_level \in PyramidArgs, outcome \in WriteOutcomes :
          ImageLogger_imwrite(i, name, image, pyramid_level, outcome)

\* several ImageLoggers, each constructed and used inside or outside a
\* scoped override
PairNext ==
    \/ \E level \in Levels : ScopeEnter(level, MaxLoggerDepth)
    \/ \E raised \in BOOLEAN : ScopeExit(raised)
    \/ ImageLoggerNext(MaxLoggers)

PairSpec == Init /\ [][PairNext]_vars

\* every call of the module
Next ==
    \/ GetDebugLevel
    \/ \E msg \in Messages : Debug(msg)
    \/ \E msg \in Messages : Ddebug(msg)
    \/ \E msg \in Messages : Warn(msg)
    \/ \E level \in Levels : ScopeEnter(level, MaxLoggerDepth)
    \/ \E raised \in BOOLEAN : ScopeExit(raised)
    \/ AddVerboseArgument
    \/ \E a \in 1 .. Len(actions) : IncreaseDebugLevel(a)
    \/ ImageLoggerNext(MaxFrames)

Spec == Init /\ [][Next]_vars

\* the values ImageLogger._frame_number holds when a logger is constructed,
\* after the constructions that came before it in the process
FrameNumbers == {1, 7, 12345}

\* a process in which earlier loggers have taken frame numbers and are gone
LaterInit ==
    /\ debug_level = None
    /\ config_verbose \in Levels
    /\ scopes = <<>>
    /\ actions = <<>>
    /\ frame_number \in FrameNumbers
    /\ loggers = <<>>
    /\ dirs = {}
    /\ files = EmptyDict
    /\ stderr_encoding = "utf-8"
    /\ workers = [w \in Workers |-> IdleWorker]
    /\ lookups = 0
    /\ stderr = <<>>
    /\ op = Call("import", 0, <<>>, "none")

FrameNext == ImageLoggerNext(MaxFrames)

FrameSpec == LaterInit /\ [][FrameNext]_vars

----------------------------------------------------------------------------
(* Threads.  The module takes no lock, so a thread can be suspended between
   any two statements, and between the load and the store of `+=`. *)

\* scoped_debug_level entered by thread w: oldlevel = _debug_level and
\* _debug_level = level
WorkerScopeEnter(w, level) ==
    /\ workers[w].scope = "out"
    /\ workers' = [workers EXCEPT ![w] =
          [@ EXCEPT !.scope = "in", !.level = level, !.oldlevel = debug_level,
                    !.base = IF \E v \in Workers : workers[v].scope = "in"
                             THEN workers[CHOOSE v \in Workers :
                                              workers[v].scope = "in"].base
                             ELSE LevelRead]]
    /\ debug_level' = scope_enter_level(debug_level, level)
    /\ stderr' = <<>>
    /\ op' = Call("scope_enter", w, <<>>, "none")
    /\ UNCHANGED <<env, actions, scopes, frame_number, loggers, dirs, files, lookups>>

\* the block of thread w exits: _debug_level = oldlevel
WorkerScopeExit(w) ==
    /\ workers[w].scope = "in"
    /\ debug_level' = scope_exit_level(debug_level, workers[w].oldlevel, FALSE)
    /\ workers' = [workers EXCEPT ![w] =
          [@ EXCEPT !.scope = "out", !.level = None, !.oldlevel = None,
                    !.base = None]]
    /\ stderr' = <<>>
    /\ op' = Call("scope_exit", w, <<>>, "none")
    /\ UNCHANGED <<env, actions, scopes, frame_number, loggers, dirs, files, lookups>>

\* get_debug_level called by thread w; args is the value it returned
WorkerGetDebugLevel(w) ==
    /\ ReadLevel
    /\ debug_level' = cached_level(debug_level, LevelRead)
    /\ stderr' = <<>>
    /\ op' = Call("get_debug_level", w, <<LevelRead>>, "none")
    /\ UNCHANGED <<env, workers, actions, scopes, frame_number, loggers, dirs, files>>

\* ImageLogger.__init__ in thread w, lines 86-91: a level too low makes the
\* inert logger; otherwise self.frame_number = ImageLogger._frame_number
WorkerInitRead(w) ==
    /\ workers[w].init = "start"
    /\ ReadLevel
    /\ debug_level' = cached_level(debug_level, LevelRead)
    /\ stderr' = <<>>
    /\ op' = Call("ImageLogger", w, <<"read">>, "none")
    /\ IF ~init_enabled(LevelRead)
       THEN /\ loggers' = Append(loggers, InertLogger)
            /\ workers' = [workers EXCEPT ![w].init = "done"]
       ELSE /\ loggers' = loggers
            /\ workers' = [workers EXCEPT ![w].init = "load",
                                          ![w].self_frame_number = frame_number]
    /\ UNCHANGED <<env, actions, scopes, frame_number, dirs, files>>

\* line 92, `ImageLogger._frame_number += 1`: the load of the counter
WorkerInitLoad(w) ==
    /\ workers[w].init = "load"
    /\ workers' = [workers EXCEPT ![w].init = "store", ![w].loaded = frame_number]
    /\ stderr' = <<>>
    /\ op' = Call("ImageLogger", w, <<"load">>, "none")
    /\ UNCHANGED <<debug_level, env, actions, scopes, frame_number, loggers,
                   dirs, files, lookups>>

\* line 92: the store of the counter value loaded, plus one
WorkerInitStore(w) ==
    /\ workers[w].init = "store"
    /\ frame_number' = next_frame_number(workers[w].loaded)
    /\ workers' = [workers EXCEPT ![w].init = "mkdir", ![w].loaded = None]
    /\ stderr' = <<>>
    /\ op' = Call("ImageLogger", w, <<"store">>, "none")
    /\ UNCHANGED <<debug_level, env, actions, scopes, loggers, dirs, files, lookups>>

\* lines 94-109: outdir, mkdir_p and the rest of the constructor
WorkerInitFinish(w, name, mkdir_ok) ==
    /\ workers[w].init = "mkdir"
    /\ workers' = [workers EXCEPT ![w].init = "done"]
    /\ op' = Call("ImageLogger", w, <<IF mkdir_ok THEN "ok" ELSE "OSError">>, "none")
    /\ IF mkdir_ok
       THEN /\ dirs' = dirs \cup {OutDir(name, workers[w].self_frame_number)}
            /\ loggers' = Append(loggers,
                  EnabledLogger(name, workers[w].self_frame_number, EmptyDict))
            /\ stderr' = <<>>
       ELSE /\ dirs' = dirs
            /\ loggers' = Append(loggers,
                  FailedLogger(name, workers[w].self_frame_number))
            /\ stderr' = warn_output(
                  MkdirWarning(OutDir(name, workers[w].self_frame_number)))
    /\ UNCHANGED <<debug_level, env, actions, scopes, frame_number, files, lookups>>

\* two threads, each entering and leaving scoped_debug_level blocks and
\* reading the level
ScopeRaceNext ==
    \E w \in Workers :
        \/ \E level \in Levels : WorkerScopeEnter(w, level)
        \/ WorkerScopeExit(w)
        \/ WorkerGetDebugLevel(w)

ScopeRaceSpec == Init /\ [][ScopeRaceNext]_vars

\* two threads, each constructing one ImageLogger
CounterRaceNext ==
    \E w \in Workers :
        \/ WorkerInitRead(w)
        \/ WorkerInitLoad(w)
        \/ WorkerInitStore(w)
        \/ \E name \in Idents, mkdir_ok \in BOOLEAN : WorkerInitFinish(w, name, mkdir_ok)

CounterRaceSpec == Init /\ [][CounterRaceNext]_vars

\* image names of which one looks like the other stored at a pyramid level
PrefixedNames == {"source", "level1-source"}

\* several loggers writing images whose names could meet
NamesNext ==
    \/ \E name \in Idents, mkdir_ok \in BOOLEAN :
          ImageLogger_init(name, EmptyDict, mkdir_ok, MaxLoggers)
    \/ \E i \in 1 .. Len(loggers), name \in PrefixedNames,
          pyramid_level \in PyramidArgs, outcome \in WriteOutcomes :
          ImageLogger_imwrite(i, name, [dtype |-> "uint8", sample |-> 255],
                              pyramid_level, outcome)

NamesSpec == Init /\ [][NamesNext]_vars

\* one logger given images of every kind of dtype
ConvertNext ==
    \/ \E name \in Idents, kwargs \in KwargsSet, mkdir_ok \in BOOLEAN :
          ImageLogger_init(name, kwargs, mkdir_ok, MaxFrames)
    \/ \E i \in 1 .. Len(loggers), name \in ImageNames, image \in AllSamples,
          pyramid_level \in PyramidArgs, outcome \in WriteOutcomes :
          ImageLogger_imwrite(i, name, image, pyramid_level, outcome)

ConvertSpec == Init /\ [][ConvertNext]_vars

\* a process whose sys.stderr has either encoding
StreamInit ==
    /\ debug_level = None
    /\ config_verbose \in Levels
    /\ scopes = <<>>
    /\ actions = <<>>
    /\ frame_number = 1
    /\ loggers = <<>>
    /\ dirs = {}
    /\ files = EmptyDict
    /\ stderr_encoding \in Encodings
    /\ workers = [w \in Workers |-> IdleWorker]
    /\ lookups = 0
    /\ stderr = <<>>
    /\ op = Call("import", 0, <<>>, "none")

\* the emitters, given ASCII and non-ASCII messages inside and outside
\* scoped overrides
StreamNext ==
    \/ \E msg \in Messages \cup NonAsciiMessages : Debug(msg)
    \/ \E msg \in Messages \cup NonAsciiMessages : Ddebug(msg)
    \/ \E msg \in Messages \cup NonAsciiMessages : Warn(msg)
    \/ \E level \in Levels : ScopeEnter(level, MaxDepth)
    \/ \E raised \in BOOLEAN : ScopeExit(raised)

StreamSpec == StreamInit /\ [][StreamNext]_vars

\* a process whose configuration cannot be read: every get_config call raises
ConfigFailInit ==
    /\ debug_level = None
    /\ config_verbose = ConfigError
    /\ scopes = <<>>
    /\ actions = <<>>
    /\ frame_number = 1
    /\ loggers = <<>>
    /\ dirs = {}
    /\ files = EmptyDict
    /\ stderr_encoding = "utf-8"
    /\ workers = [w \in Workers |-> IdleWorker]
    /\ lookups = 0
    /\ stderr = <<>>
    /\ op = Call("import", 0, <<>>, "none")

ConfigFailSpec == ConfigFailInit /\ [][Next]_vars

----------------------------------------------------------------------------
(* The claims about the debug level, checked under LevelSpec *)

\* C1: when the outermost scoped_debug_level block exits, by return or by an
\* error of its body, get_debug_level returns what it would have returned
\* just before that block was entered.
C1_OutermostScopeRestoresLevel ==
    [][(Len(scopes) = 1 /\ Len(scopes') = 0)
          => get_debug_level(debug_level', config_verbose') = scopes[1].seen]_vars

\* C1 witness: an outermost block whose body raised has exited, and the level
\* is unset again although the block ran at its own level.
C1_Witness ==
    /\ op.name = "scope_exit" /\ op.raised = "body"
    /\ scopes = <<>>
    /\ debug_level = None

\* C7: debug writes one line exactly when the level is at least 1, ddebug one
\* line exactly when it is at least 2, warn one line at every level and when
\* the level is unset.
C7_EmittersWriteByLevel ==
    /\ op.name = "debug" => Len(stderr) = (IF debug_level >= 1 THEN 1 ELSE 0)
    /\ op.name = "ddebug" => Len(stderr) = (IF debug_level >= 2 THEN 1 ELSE 0)
    /\ op.name = "warn" => Len(stderr) = 1

\* C7 witness: warn has written its line while the level is still unset.
C7_Witness ==
    /\ op.name = "warn"
    /\ debug_level = None
    /\ stderr = <<"stbt: warning: hello\n">>

\* C8: after the n-th invocation of a registered verbose action, the level
\* and the namespace value equal n, whatever the level was before.
C8_LevelIsNumberOfInvocations ==
    op.name = "IncreaseDebugLevel" =>
        LET a == actions[op.target]
        IN  /\ a.invoked >= 1
            /\ debug_level = a.invoked
            /\ a.namespace = a.invoked

\* C8 witness: the second invocation has set level and namespace to 2 under
\* a configuration that seeds the level with 0.
C8_Witness ==
    /\ op.name = "IncreaseDebugLevel"
    /\ config_verbose = 0
    /\ actions[op.target].invoked = 2
    /\ actions[op.target].namespace = 2
    /\ debug_level = 2

\* C9 as stated: every invocation raises the level by exactly one from the
\* level in effect just before it.
C9_Original ==
    [][op'.name = "IncreaseDebugLevel"
          => debug_level' = get_debug_level(debug_level, config_verbose) + 1]_vars

\* C9 amended: every invocation raises the action's own call count by exactly
\* one and sets the level to the new count, whatever level was in effect
\* before; from the second invocation of an action on, the level it sets is
\* one above the level its previous invocation set.
C9_LevelFollowsCallCount ==
    [][op'.name = "IncreaseDebugLevel"
          => LET before == actions[op'.target]
                 after == actions'[op'.target]
             IN  /\ after.num_calls = before.num_calls + 1
                 /\ debug_level' = after.num_calls
                 /\ before.invoked >= 1 => debug_level' = before.namespace + 1]_vars

\* C9 witness: the first invocation has set the level to 1 outside any scope
\* under a configuration that had seeded it with 2.
C9_Witness ==
    /\ op.name = "IncreaseDebugLevel"
    /\ scopes = <<>>
    /\ config_verbose = 2
    /\ actions[op.target].num_calls = 1
    /\ debug_level = 1

----------------------------------------------------------------------------
(* The claims about ImageLogger: C2 and C6 are checked under PairSpec, the *)
(* others under Spec                                                       *)

\* a logger whose constructor took a frame number
Numbered(l) == "frame_number" \in DOMAIN l

\* a logger whose constructor caught mkdir_p's OSError
MkdirFailed(l) == Numbered(l) /\ ~l.enabled

\* the name the most recent imwrite call stores its image under
StoredNameOf(call) == StoredName(call.args[1], call.args[3])

\* C2: a logger that was given a frame number has a greater one than every
\* logger constructed before it, so no two loggers share one.
C2_FrameNumbersStrictlyIncrease ==
    \A i, j \in 1 .. Len(loggers) :
        (i < j /\ Numbered(loggers[i]) /\ Numbered(loggers[j]))
            => loggers[i].frame_number < loggers[j].frame_number

\* C2 witness: two numbered loggers with different names, the first of which
\* failed to create its directory.
C2_Witness ==
    /\ Len(loggers) = 2
    /\ MkdirFailed(loggers[1])
    /\ loggers[2].enabled
    /\ loggers[1].name # loggers[2].name
    /\ loggers[1].frame_number = 1 /\ loggers[2].frame_number = 2

\* C3: a constructor that runs at level 0 or 1 creates no directory and does
\* not advance the frame counter, and every later set or imwrite on that
\* instance writes no file, raises nothing and changes nothing.
C3_LowLevelLoggerIsInert ==
    [][/\ (op'.name = "ImageLogger"
              /\ get_debug_level(debug_level, config_verbose) \in {0, 1})
          => /\ ~loggers'[op'.target].enabled
             /\ op'.raised = "none"
             /\ stderr' = <<>>
             /\ UNCHANGED <<frame_number, dirs, files>>
       /\ (op'.name \in {"set", "imwrite"} /\ loggers[op'.target] = InertLogger)
          => /\ op'.raised = "none"
             /\ stderr' = <<>>
             /\ UNCHANGED progvars]_vars

\* C3 witness: imwrite with a pyramid level has returned on a logger
\* constructed at low verbosity; nothing exists on disk and the counter has
\* not moved.
C3_Witness ==
    /\ op.name = "imwrite" /\ op.args[3] = 1
    /\ loggers[op.target] = InertLogger
    /\ frame_number = 1 /\ dirs = {} /\ files = EmptyDict

\* C4: when mkdir_p fails in the constructor, the constructor returns with
\* enabled false after one warning that names the directory, and every later
\* set or imwrite on that instance does nothing and raises nothing.
C4_MkdirFailureDisablesLogger ==
    [][/\ (op'.name = "ImageLogger" /\ op'.args = <<"OSError">>)
          => LET new == loggers'[op'.target]
             IN  /\ op'.raised = "none"
                 /\ ~new.enabled
                 /\ stderr' = <<WarnLine(MkdirWarning(OutDir(new.name, frame_number)))>>
                 /\ UNCHANGED <<dirs, files>>
       /\ (op'.name \in {"set", "imwrite"} /\ MkdirFailed(loggers[op'.target]))
          => /\ op'.raised = "none"
             /\ stderr' = <<>>
             /\ UNCHANGED progvars]_vars

\* C4 witness: the constructor has just warned about the directory it could
\* not create and left the instance disabled.
C4_Witness ==
    /\ op.name = "ImageLogger" /\ op.args = <<"OSError">>
    /\ loggers[op.target] = FailedLogger("match", 1)
    /\ stderr = <<"stbt: warning: Failed to create directory "
                  \o "'stbt-debug/match/00001'; won't save debug images.\n">>

\* C5: no call turns a logger's enabled flag from false to true.
C5_DisabledStaysDisabled ==
    [][\A i \in 1 .. Len(loggers) : ~loggers[i].enabled => ~loggers'[i].enabled]_vars

\* C5 witness: the verbose flag has raised the level to 2 while a logger
\* that failed to create its directory stays disabled.
C5_Witness ==
    /\ op.name = "IncreaseDebugLevel"
    /\ debug_level = 2
    /\ Len(loggers) = 1
    /\ MkdirFailed(loggers[1])

\* C6: imwrite on an enabled logger raises the duplicate-name error and
\* writes no file when the prefixed name is already a key of that logger's
\* images; otherwise it does not raise that error and records the image,
\* whatever the other loggers hold.
C6_DuplicateNamePerLogger ==
    [][(op'.name = "imwrite" /\ loggers[op'.target].enabled)
          => IF StoredNameOf(op') \in Keys(loggers[op'.target].images)
             THEN op'.raised = "ValueError" /\ files' = files
             ELSE /\ op'.raised # "ValueError"
                  /\ StoredNameOf(op') \in Keys(loggers'[op'.target].images)]_vars

\* C6 witness: the second logger has stored and written an image under a
\* name the first logger already holds.
C6_Witness ==
    /\ op.name = "imwrite" /\ op.target = 2 /\ op.raised = "none"
    /\ loggers[1].enabled /\ loggers[2].enabled
    /\ StoredNameOf(op) \in Keys(loggers[1].images)
    /\ Keys(loggers[2].images) = {StoredNameOf(op)}
    /\ ImagePath(loggers[2].outdir, StoredNameOf(op)) \in DOMAIN files

\* C10: enabled is decided by the level the constructor reads; afterwards an
\* enabled logger records on set and imwrite and a logger disabled by low
\* verbosity does nothing, at every level, and a change of the level changes
\* no logger.
C10_EnabledDecidedAtConstruction ==
    [][/\ op'.name = "ImageLogger"
          => loggers'[op'.target].enabled =
                (get_debug_level(debug_level, config_verbose) >= 2
                    /\ op'.args # <<"OSError">>)
       /\ (op'.name = "set" /\ loggers[op'.target].enabled)
          => loggers'[op'.target].data =
                UpdateDict(loggers[op'.target].data, op'.args[1])
       /\ (op'.name = "imwrite" /\ loggers[op'.target].enabled
              /\ op'.raised # "ValueError")
          => StoredNameOf(op') \in Keys(loggers'[op'.target].images)
       /\ (op'.name \in {"set", "imwrite"} /\ loggers[op'.target] = InertLogger)
          => UNCHANGED <<loggers, dirs, files>>
       /\ op'.name \in {"scope_enter", "scope_exit", "IncreaseDebugLevel"}
          => UNCHANGED loggers]_vars

\* C10 witness: an enabled logger has recorded an image while the level is 0.
C10_Witness ==
    /\ op.name = "imwrite" /\ op.raised = "none"
    /\ debug_level = 0
    /\ loggers[op.target].enabled
    /\ Keys(loggers[op.target].images) = {StoredNameOf(op)}

----------------------------------------------------------------------------
(* The configuration lookup *)

\* the calls that call get_debug_level
LevelReaders ==
    {"get_debug_level", "debug", "ddebug", "argparser_add_verbose_argument",
     "ImageLogger"}

InnermostScope == scopes[Len(scopes)]

----------------------------------------------------------------------------
(* The image file *)

\* the path the most recent imwrite call writes, on the logger it was made on
PathOf(call, logger) == ImagePath(logger.outdir, StoredNameOf(call))

\* C12: an imwrite call on an enabled logger that returns normally has
\* written its file exactly once, so that a write that did not happen has
\* left the call as an error.
C12_Original ==
    [][(/\ op'.name = "imwrite"
        /\ loggers[op'.target].enabled
        /\ op'.raised = "none")
          => /\ PathOf(op', loggers[op'.target]) \notin DOMAIN files
             /\ files' = WriteFile(files, PathOf(op', loggers[op'.target]))]_vars

----------------------------------------------------------------------------
(* A failing configuration lookup, checked under ConfigFailSpec *)

\* C13: where get_config raises, a caller of get_debug_level that finds the
\* level unset raises that error and changes nothing: the level stays unset,
\* no action is registered, no logger exists, the frame counter keeps its
\* value and no directory is made; a caller that finds the level set calls
\* get_config not at all and does not fail; warn never calls get_config.
C13_ConfigErrorPropagates ==
    [][/\ (op'.name \in LevelReaders /\ debug_level = None)
          => /\ op'.raised = "ConfigError"
             /\ lookups' = lookups + 1
             /\ debug_level' = None
             /\ stderr' = <<>>
             /\ UNCHANGED <<scopes, actions, frame_number, loggers, dirs, files>>
       /\ (op'.name \in LevelReaders /\ debug_level # None)
          => /\ op'.raised # "ConfigError"
             /\ lookups' = lookups
       /\ op'.name = "warn"
          => /\ op'.raised = "none"
             /\ lookups' = lookups
             /\ Len(stderr') = 1]_vars

\* C13 witness: the ImageLogger constructor has raised the configuration
\* error with the level unset, after a verbose action was registered and
\* invoked inside a block that has exited.
C13_Witness ==
    /\ op.name = "ImageLogger" /\ op.raised = "ConfigError"
    /\ debug_level = None
    /\ scopes = <<>>
    /\ \E a \in 1 .. Len(actions) : actions[a].invoked > 0
    /\ loggers = <<>> /\ frame_number = 1 /\ dirs = {}

----------------------------------------------------------------------------
(* The paths, checked under FrameSpec *)

Digit(d) ==
    CASE d = 0 -> "0" [] d = 1 -> "1" [] d = 2 -> "2" [] d = 3 -> "3"
      [] d = 4 -> "4" [] d = 5 -> "5" [] d = 6 -> "6" [] d = 7 -> "7"
      [] d = 8 -> "8" [] d = 9 -> "9"

\* the five decimal digits of a number below 100000
FiveDigits(n) ==
    Digit((n \div 10000) % 10) \o Digit((n \div 1000) % 10)
        \o Digit((n \div 100) % 10) \o Digit((n \div 10) % 10) \o Digit(n % 10)

\* C14: an enabled logger with identifier I and frame number S has the
\* directory stbt-debug/I/<S in five digits>; an imwrite that writes a file
\* writes <outdir>/<name>.png, or <outdir>/level<N>-<name>.png when it was
\* given the pyramid level N, in which case N is in pyramid_levels and the
\* image is recorded under level<N>-<name>.
C14_DirectoryAndFileNames ==
    [][/\ (op'.name = "ImageLogger" /\ op'.args = <<"ok">>)
          => LET l == loggers'[op'.target]
             IN  /\ l.frame_number = frame_number
                 /\ l.outdir = "stbt-debug/" \o l.name \o "/"
                                  \o FiveDigits(frame_number)
                 /\ l.outdir \in dirs'
       /\ (op'.name = "imwrite" /\ files' # files)
          => LET l == loggers'[op'.target]
                 name == op'.args[1]
                 N == op'.args[3]
                 key == IF N = None THEN name
                        ELSE "level" \o Digit(N) \o "-" \o name
             IN  /\ DOMAIN files' \ DOMAIN files = {l.outdir \o "/" \o key \o ".png"}
                 /\ key \in Keys(l.images)
                 /\ N # None => N \in l.pyramid_levels]_vars

\* C14 witness: the logger "match" with frame number 7 has written its image
\* "source" without a pyramid level and at pyramid level 1.
C14_Witness ==
    /\ op.name = "imwrite"
    /\ Len(loggers) = 1
    /\ loggers[1].enabled
    /\ loggers[1].outdir = "stbt-debug/match/00007"
    /\ DOMAIN files = {"stbt-debug/match/00007/source.png",
                       "stbt-debug/match/00007/level1-source.png"}
    /\ loggers[1].pyramid_levels = {1}
    /\ Keys(loggers[1].images) = {"source", "level1-source"}

----------------------------------------------------------------------------
(* Non-ASCII messages, checked under StreamSpec *)

\* C15: inside a scoped_debug_level block of level 0, 1 or 2, warn, debug and
\* ddebug given a message that is not ASCII return without an error, and
\* when the block exits the level is the one saved on entry.
C15_Original ==
    [][/\ (op'.name \in {"warn", "debug", "ddebug"} /\ scopes # <<>>)
          => op'.raised = "none"
       /\ op'.name = "scope_exit"
          => debug_level' = InnermostScope.oldlevel]_vars

----------------------------------------------------------------------------
(* The conversion of the image, checked under ConvertSpec *)

\* the image the most recent imwrite call recorded in `logger`
RecordedBy(call, logger) ==
    LET j == CHOOSE j \in 1 .. Len(logger.images) :
                 logger.images[j].name = StoredNameOf(call)
    IN  logger.images[j].img

\* out is the 8-bit value of the float sample `sample` times 255: the nearest
\* integer, 0 for 0.0 and 255 for 1.0
Times255(sample, out) ==
    /\ out \in 0 .. 255
    /\ 2 * out * FloatUnit - 2 * sample * 255 \in -FloatUnit .. FloatUnit
    /\ sample = 0 => out = 0
    /\ sample = FloatUnit => out = 255

\* what imwrite records for the image `in` when the dtypes in `scaled` are
\* the ones it rescales
RecordsScaled(scaled) ==
    (/\ op'.name = "imwrite"
     /\ loggers[op'.target].enabled
     /\ op'.raised # "ValueError")
       => LET in == op'.args[2]
              out == RecordedBy(op', loggers'[op'.target])
          IN  IF in.dtype \in scaled
              THEN out.dtype = "uint8" /\ Times255(in.sample, out.sample)
              ELSE out = in

\* C16 as stated: imwrite on an enabled logger records the image times 255 as
\* an 8-bit image when its dtype is a floating-point one, whichever, and
\* records it unchanged when its dtype is not; 0.0 becomes 0 and 1.0 becomes
\* 255.
C16_Original == [][RecordsScaled({"float16", "float32", "float64"})]_vars

\* C16, amended: imwrite on an enabled logger records the image times 255 as
\* an 8-bit image exactly when its dtype is float32, and records an image of
\* any other dtype, float64 included, unchanged; 0.0 becomes 0 and 1.0
\* becomes 255.
C16_OnlyFloat32IsRescaled == [][RecordsScaled({"float32"})]_vars

\* C16 witness: the logger holds a float64 image as it came, and has just
\* recorded the float32 image 1.0 as the 8-bit image 255.
C16_Witness ==
    /\ op.name = "imwrite" /\ op.raised = "none"
    /\ op.args[2] = [dtype |-> "float32", sample |-> FloatUnit]
    /\ loggers[op.target].enabled
    /\ RecordedBy(op, loggers[op.target]) = [dtype |-> "uint8", sample |-> 255]
    /\ \E j \in 1 .. Len(loggers[op.target].images) :
          loggers[op.target].images[j].img = [dtype |-> "float64", sample |-> FloatUnit]

----------------------------------------------------------------------------
(* The files of a process, checked under NamesSpec *)

\* C17: no path is written twice in the process, by one logger or by two,
\* with or without a pyramid level.
C17_NoPathWrittenTwice == \A path \in DOMAIN files : files[path] = 1

\* C17 witness: two loggers with the same identifier have each written the
\* image "level1-source", one by that name and one as "source" at pyramid
\* level 1, and the two files are different.
C17_Witness ==
    /\ Len(loggers) = 2
    /\ loggers[1].enabled /\ loggers[2].enabled
    /\ loggers[1].name = loggers[2].name
    /\ Keys(loggers[1].images) = {"level1-source"}
    /\ Keys(loggers[2].images) = {"level1-source"}
    /\ loggers[1].pyramid_levels # loggers[2].pyramid_levels
    /\ Cardinality(DOMAIN files) = 2

----------------------------------------------------------------------------
(* Two threads *)

\* C18: a thread that reads the level inside its own scoped_debug_level block
\* reads the level of that block, whatever the other thread does, and when
\* the last active block exits the level is again what it was before the
\* first of them was entered.  Checked under ScopeRaceSpec.
C18_Original ==
    [][/\ (op'.name = "get_debug_level" /\ workers[op'.target].scope = "in")
          => op'.args[1] = workers[op'.target].level
       /\ (op'.name = "scope_exit" /\ \A v \in Workers : workers'[v].scope = "out")
          => get_debug_level(debug_level', config_verbose)
                = workers[op'.target].base]_vars

\* C19: loggers constructed by two threads, however the reads and the
\* increment of the counter interleave, have different frame numbers and
\* different directories.  Checked under CounterRaceSpec.
C19_Original ==
    \A i, j \in 1 .. Len(loggers) :
        (i # j /\ Numbered(loggers[i]) /\ Numbered(loggers[j]))
            => /\ loggers[i].frame_number # loggers[j].frame_number
               /\ OutDir(loggers[i].name, loggers[i].frame_number)
                     # OutDir(loggers[j].name, loggers[j].frame_number)

----------------------------------------------------------------------------
(* A failing imwrite, checked under NamesSpec *)

\* C20: an imwrite call on an enabled logger that raises, for a duplicate
\* name or for a failed write, leaves the logger as it was; every level in
\* pyramid_levels is the level some recorded image was stored at, and every
\* recorded image has its file.
C20_Original ==
    [][/\ (/\ op'.name = "imwrite"
           /\ loggers[op'.target].enabled
           /\ op'.raised # "none")
          => loggers'[op'.target] = loggers[op'.target]
       /\ \A i \in 1 .. Len(loggers') :
             loggers'[i].enabled
                => /\ \A N \in loggers'[i].pyramid_levels :
                         \E name \in PrefixedNames :
                            StoredName(name, N) \in Keys(loggers'[i].images)
                   /\ \A key \in Keys(loggers'[i].images) :
                         ImagePath(loggers'[i].outdir, key) \in DOMAIN files']_vars

====
